---- MODULE Spec2Model ----
(***************************************************************************)
(* Model of scripts/generate_puzzles.py: the table -> versioned puzzle     *)
(* artifacts + manifest generator.                                         *)
(*                                                                         *)
(* Text is a sequence of one-character strings.  A SHA-256 hex digest is   *)
(* one atom of such a sequence (its 64 hex characters are never taken      *)
(* apart by the program) and SHA-256 is taken to be collision free: the    *)
(* digest of a text is the printed form of that text.                      *)
(*                                                                         *)
(* The three files the program owns are the variables csvFile,             *)
(* manifestFile and puzzleFiles; one run of generate() is the sequence     *)
(* StartRun, LoopIteration (once per row), FinishManifest, FinishCsv, and  *)
(* may be cut short between any two of them by Crash.  File operations     *)
(* succeed: the PermissionError fallback of write_csv_table and other I/O  *)
(* failures are outside the model.                                         *)
(***************************************************************************)
EXTENDS Integers, Sequences, FiniteSets, TLC

\* ------------------------------------------------------------- bounds
MaxRuns == 3
MaxEdits == 1

\* -------------------------------------------------- text (str methods)
Digits == <<"0", "1", "2", "3", "4", "5", "6", "7", "8", "9">>

IsSpace(c) == c \in {" ", "\t"}

RECURSIVE LStrip(_)
LStrip(s) == IF s # <<>> /\ IsSpace(Head(s)) THEN LStrip(Tail(s)) ELSE s

RECURSIVE RStrip(_)
RStrip(s) ==
    IF s # <<>> /\ IsSpace(s[Len(s)]) THEN RStrip(SubSeq(s, 1, Len(s) - 1)) ELSE s

Strip(s) == LStrip(RStrip(s))

StartsWith(s, c) == s # <<>> /\ s[1] = c

EndsWith(s, c) == s # <<>> /\ s[Len(s)] = c

Count(s, c) == Cardinality({k \in 1..Len(s) : s[k] = c})

\* str.split(sep): the parts between the separators, empty parts kept.
RECURSIVE SplitOn(_, _)
SplitOn(s, sep) ==
    IF \A k \in 1..Len(s) : s[k] # sep
    THEN <<s>>
    ELSE LET k == CHOOSE k \in 1..Len(s) :
                     s[k] = sep /\ \A j \in 1..(k - 1) : s[j] # sep
         IN  <<SubSeq(s, 1, k - 1)>> \o SplitOn(SubSeq(s, k + 1, Len(s)), sep)

\* [p.strip() for p in parts], then the non-empty ones.
RECURSIVE NonEmptyParts(_)
NonEmptyParts(parts) ==
    IF parts = <<>> THEN <<>>
    ELSE SelectSeq(<<Strip(Head(parts))>>, LAMBDA p : p # <<>>)
         \o NonEmptyParts(Tail(parts))

\* str(n) for an int.
RECURSIVE NatToStr(_)
NatToStr(n) ==
    IF n < 10 THEN <<Digits[n + 1]>>
    ELSE NatToStr(n \div 10) \o <<Digits[(n % 10) + 1]>>

IntToStr(n) == IF n < 0 THEN <<"-">> \o NatToStr(0 - n) ELSE NatToStr(n)

IsDigit(c) == \E d \in 1..10 : Digits[d] = c

DigitVal(c) == (CHOOSE d \in 1..10 : Digits[d] = c) - 1

RECURSIVE DigitsVal(_)
DigitsVal(s) ==
    IF s = <<>> THEN 0
    ELSE 10 * DigitsVal(SubSeq(s, 1, Len(s) - 1)) + DigitVal(s[Len(s)])

AllDigits(s) == s # <<>> /\ \A k \in 1..Len(s) : IsDigit(s[k])

\* int(s) succeeds on an optional sign followed by decimal digits.
IntParses(s) ==
    \/ AllDigits(s)
    \/ s # <<>> /\ s[1] \in {"+", "-"} /\ AllDigits(Tail(s))

IntOf(s) ==
    IF s[1] = "-" THEN 0 - DigitsVal(Tail(s))
    ELSE IF s[1] = "+" THEN DigitsVal(Tail(s))
    ELSE DigitsVal(s)

\* ------------------------------------------------------ pure functions
\* hashlib.sha256(text).hexdigest(): a text of one atom.
_sha256_text(text) == <<ToString(text)>>

\* Lines 61-67: a closing quote left alone at the end.
DropTrailingQuote(s) ==
    IF EndsWith(s, "'") /\ ~StartsWith(s, "'")
    THEN IF Len(s) >= 2 /\ s[Len(s) - 1] \in {".", "!", "?"}
         THEN RStrip(SubSeq(s, 1, Len(s) - 1))
         ELSE IF Count(s, "'") = 1 THEN RStrip(SubSeq(s, 1, Len(s) - 1)) ELSE s
    ELSE s

\* Lines 69-71: an opening quote left alone at the start.
DropLeadingQuote(s) ==
    IF StartsWith(s, "'") /\ ~EndsWith(s, "'")
    THEN IF Count(s, "'") = 1 THEN LStrip(Tail(s)) ELSE s
    ELSE s

\* Lines 57-73, on the stripped text s.
Unquote(s) ==
    IF Len(s) >= 2 /\ s[1] = s[Len(s)] /\ s[1] \in {"\"", "'"}
    THEN Strip(SubSeq(s, 2, Len(s) - 1))
    ELSE DropLeadingQuote(DropTrailingQuote(s))

_strip_wrapping_quotes(text) == Unquote(Strip(text))

\* Lines 78-81 and 86-89, on the unquoted text s.
SplitList(s, sep) == IF s = <<>> THEN <<>> ELSE NonEmptyParts(SplitOn(s, sep))

_split_semicolon_list(text) == SplitList(_strip_wrapping_quotes(text), ";")

_split_comma_list(text) == SplitList(_strip_wrapping_quotes(text), ",")

\* Lines 165-170, on the unquoted text s.
IntOr(s, default) ==
    IF s = <<>> THEN default
    ELSE IF IntParses(s) THEN IntOf(s) ELSE default

_parse_int(value, default) == IntOr(_strip_wrapping_quotes(value), default)

\* ------------------------------------------------------- column names
DATEKEY_COL == "dateKey (YYYY-MM-DD)"
CATEGORY_COL == "category"
TAGS_COL == "tags (semicolon-separated)"
ANSWER_CANONICAL_COL == "answerCanonical"
ANSWER_ALIASES_COL == "answerAliases (comma-separated)"
SOLUTION_EXPLANATION_COL == "solutionExplanation"
VERSION_COL == "version"
CONTENT_HASH_COL == "contentHash"

RequiredColumns ==
    <<DATEKEY_COL, CATEGORY_COL, TAGS_COL, ANSWER_CANONICAL_COL,
      ANSWER_ALIASES_COL, SOLUTION_EXPLANATION_COL, VERSION_COL>>

\* (hint column, explanation column) for hint1..hint5.
_hint_columns ==
    [n \in 1..5 |-> <<"hint" \o ToString(n), "hint" \o ToString(n) \o "Explanation">>]

\* dict.get(key, "")
Get(row, col) == IF col \in DOMAIN row THEN row[col] ELSE <<>>

\* d[key] = value
Upsert(d, key, value) ==
    [k \in (DOMAIN d) \cup {key} |-> IF k = key THEN value ELSE d[k]]

EmptyDict == [k \in {} |-> <<>>]

\* A reading of "has content" that does not strip the cells, for comparison.
RowHasAnyCell(row) == \E k \in DOMAIN row : row[k] # <<>>

_row_has_any_content(row) == \E k \in DOMAIN row : Strip(row[k]) # <<>>

\* Lines 199-209: no hint for an empty text, no explanationText for an empty one.
HintObjects(n, hint_text, expl) ==
    IF hint_text = <<>> THEN <<>>
    ELSE IF expl = <<>>
    THEN <<[id |-> <<"h">> \o IntToStr(n), index |-> n - 1, text |-> hint_text]>>
    ELSE <<[id |-> <<"h">> \o IntToStr(n), index |-> n - 1, text |-> hint_text,
            explanationText |-> expl]>>

RECURSIVE BuildHints(_, _)
BuildHints(row, n) ==
    IF n > Len(_hint_columns) THEN <<>>
    ELSE HintObjects(n, _strip_wrapping_quotes(Get(row, _hint_columns[n][1])),
                     _strip_wrapping_quotes(Get(row, _hint_columns[n][2])))
         \o BuildHints(row, n + 1)

\* Lines 211-221.
PuzzleObject(date_key, version, category, tags, answer_canonical, answer_aliases, hints, solution_explanation) ==
    [id |-> date_key,
     dateKey |-> date_key,
     version |-> version,
     category |-> category,
     tags |-> tags,
     answerCanonical |-> answer_canonical,
     answerAliases |-> answer_aliases,
     hints |-> hints,
     solutionExplanation |-> solution_explanation]

build_puzzle_object(row, version) ==
    PuzzleObject(_strip_wrapping_quotes(Get(row, DATEKEY_COL)),
                 version,
                 _strip_wrapping_quotes(Get(row, CATEGORY_COL)),
                 _split_semicolon_list(Get(row, TAGS_COL)),
                 _strip_wrapping_quotes(Get(row, ANSWER_CANONICAL_COL)),
                 _split_comma_list(Get(row, ANSWER_ALIASES_COL)),
                 BuildHints(row, 1),
                 _strip_wrapping_quotes(Get(row, SOLUTION_EXPLANATION_COL)))

\* sorted(hints, key=index): a stable insertion sort.
RECURSIVE InsertByIndex(_, _)
InsertByIndex(h, sorted) ==
    IF sorted = <<>> THEN <<h>>
    ELSE IF h.index < Head(sorted).index THEN <<h>> \o sorted
    ELSE <<Head(sorted)>> \o InsertByIndex(h, Tail(sorted))

RECURSIVE SortedByIndex(_)
SortedByIndex(hints) ==
    IF hints = <<>> THEN <<>>
    ELSE InsertByIndex(hints[Len(hints)], SortedByIndex(SubSeq(hints, 1, Len(hints) - 1)))

\* json.dumps: an object is written as its <<key, value>> pairs in the order of
\* `keys`, a list of objects as the list of their pairs.
RECURSIVE DumpFlat(_, _)
DumpFlat(obj, keys) ==
    IF keys = <<>> THEN <<>>
    ELSE (IF Head(keys) \in DOMAIN obj THEN <<<<Head(keys), obj[Head(keys)]>>>> ELSE <<>>)
         \o DumpFlat(obj, Tail(keys))

RECURSIVE DumpList(_, _)
DumpList(objs, keys) ==
    IF objs = <<>> THEN <<>>
    ELSE <<DumpFlat(Head(objs), keys)>> \o DumpList(Tail(objs), keys)

RECURSIVE DumpObject(_, _, _)
DumpObject(obj, keys, order) ==
    IF keys = <<>> THEN <<>>
    ELSE (IF Head(keys) \in DOMAIN obj
          THEN <<<<Head(keys),
                   IF Head(keys) = "hints" THEN DumpList(obj[Head(keys)], order)
                   ELSE obj[Head(keys)]>>>>
          ELSE <<>>)
         \o DumpObject(obj, Tail(keys), order)

\* sort_keys=True: the keys of a record and of a hint in code point order.
SortedKeys ==
    <<"answerAliases", "answerCanonical", "category", "dateKey", "explanationText",
      "hints", "id", "index", "solutionExplanation", "tags", "text", "version">>

\* Without sort_keys: the order the keys were set in (lines 201-208, 211-221).
InsertionKeys ==
    <<"id", "dateKey", "version", "category", "tags", "answerCanonical",
      "answerAliases", "hints", "solutionExplanation", "index", "text",
      "explanationText">>

JsonCompactSorted(obj) == <<"compact", DumpObject(obj, SortedKeys, SortedKeys)>>

JsonIndent2(obj) == <<"indent2", DumpObject(obj, InsertionKeys, InsertionKeys)>>

\* A content hash that keeps the version field, for comparison.
HashWithVersion(puzzle_obj) ==
    _sha256_text(JsonCompactSorted(
        [k \in DOMAIN puzzle_obj |->
            IF k = "hints" THEN SortedByIndex(puzzle_obj[k]) ELSE puzzle_obj[k]]))

compute_content_hash(puzzle_obj) ==
    _sha256_text(JsonCompactSorted(
        [k \in (DOMAIN puzzle_obj) \ {"version"} |->
            IF k = "hints" THEN SortedByIndex(puzzle_obj[k]) ELSE puzzle_obj[k]]))

\* The text write_puzzle_json writes, and the digest it returns.
ArtifactText(puzzle_obj) == <<JsonIndent2(puzzle_obj), "\n">>

\* A writer that clears the directory of every other artifact, for comparison.
WritePruning(files, path, puzzle_obj) ==
    [files |-> Upsert(EmptyDict, path, ArtifactText(puzzle_obj)),
     sha256 |-> _sha256_text(ArtifactText(puzzle_obj))]

write_puzzle_json(files, path, puzzle_obj) ==
    [files |-> Upsert(files, path, ArtifactText(puzzle_obj)),
     sha256 |-> _sha256_text(ArtifactText(puzzle_obj))]

ensure_manifest_shape(manifest) ==
    [k \in (DOMAIN manifest) \cup {"puzzles", "meta"} |->
        IF k \in DOMAIN manifest THEN manifest[k] ELSE EmptyDict]

Filename(date_key, version) ==
    date_key \o <<".", "v">> \o IntToStr(version) \o <<".", "j", "s", "o", "n">>

Url(filename) == <<"/", "p", "u", "z", "z", "l", "e", "s", "/">> \o filename

\* ------------------------------------------------------ generate()
\* The frame of one call: generate()'s locals.
StartFrame(csv, manifestText, dry) ==
    [dry_run |-> dry,
     table |-> [header |-> IF \E k \in 1..Len(csv.header) : csv.header[k] = CONTENT_HASH_COL
                           THEN csv.header
                           ELSE Append(csv.header, CONTENT_HASH_COL),
                rows |-> csv.rows],
     manifest |-> ensure_manifest_shape(manifestText),
     any_csv_updates |-> FALSE,
     any_manifest_updates |-> FALSE,
     results |-> <<>>,
     skipped_blank_rows |-> 0,
     skipped_missing_date |-> 0,
     i |-> 1]

\* Variants of the decisions below, each differing from the code in one respect;
\* the properties at the end of the module tell them from the code.
ShouldBumpOnEmpty(stored_hash, computed_hash) == stored_hash # computed_hash

EntryChangedAlways(puzzles_manifest, date_key, new_manifest_entry) == TRUE

RowVersionFromManifest(f) ==
    IF _strip_wrapping_quotes(Get(f.table.rows[f.i], DATEKEY_COL))
           \in DOMAIN f.manifest.puzzles
    THEN f.manifest.puzzles[
             _strip_wrapping_quotes(Get(f.table.rows[f.i], DATEKEY_COL))].version
    ELSE _parse_int(Get(f.table.rows[f.i], VERSION_COL), 1)

BumpedVersionTwice(parsed_version, bumped) ==
    IF bumped THEN parsed_version + 2 ELSE parsed_version

CreatedNoDryOverride(existed_before, dry_run) == (~existed_before) /\ (~dry_run)

SavesManifestAlways(f) == ~f.dry_run

WritesCsvAlways(f) == ~f.dry_run

ShouldBump(stored_hash, computed_hash) ==
    stored_hash # <<>> /\ stored_hash # computed_hash

EntryChanged(puzzles_manifest, date_key, new_manifest_entry) ==
    ~(date_key \in DOMAIN puzzles_manifest
      /\ puzzles_manifest[date_key] = new_manifest_entry)

\* Line 310: the version the row holds.
RowVersion(f) == _parse_int(Get(f.table.rows[f.i], VERSION_COL), 1)

\* Lines 318-321.
BumpedVersion(parsed_version, bumped) ==
    IF bumped THEN parsed_version + 1 ELSE parsed_version

\* Lines 357-361 (refreshed is existed_before either way).
Created(existed_before, dry_run) ==
    IF dry_run THEN ~existed_before ELSE (~existed_before) /\ (~dry_run)

\* The loop body runs top to bottom; it is written here in stages, each one given
\* what the lines above it have computed.

\* Lines 346-381: the manifest entry, the flags and the row's result.
Record(f, files, new_row, date_key, stored_hash, bumped, current_version, filename, sha256, new_manifest_entry) ==
    [frame |->
        [f EXCEPT
            !.table.rows[f.i] = new_row,
            !.any_csv_updates = @ \/ stored_hash = <<>> \/ bumped,
            !.any_manifest_updates =
                @ \/ EntryChanged(f.manifest.puzzles, date_key, new_manifest_entry),
            !.manifest.puzzles = Upsert(@, date_key, new_manifest_entry),
            !.results = Append(@,
                [date_key |-> date_key,
                 version |-> current_version,
                 created |-> Created(filename \in DOMAIN files, f.dry_run),
                 refreshed |-> (filename \in DOMAIN files),
                 bumped |-> bumped,
                 reason |-> IF bumped THEN "content changed -> version bumped"
                            ELSE IF stored_hash = <<>> THEN "initialized contentHash"
                            ELSE "no content change"]),
            !.i = @ + 1],
     files |-> files,
     wrote |-> {}]

\* Lines 334-344: the artifact, written unless this is a dry run.
Emit(f, files, new_row, date_key, stored_hash, bumped, current_version, filename, puzzle_obj) ==
    IF f.dry_run
    THEN Record(f, files, new_row, date_key, stored_hash, bumped, current_version,
                filename, _sha256_text(ArtifactText(puzzle_obj)),
                [version |-> current_version, url |-> Url(filename),
                 sha256 |-> _sha256_text(ArtifactText(puzzle_obj))])
    ELSE [Record(f, files, new_row, date_key, stored_hash, bumped, current_version,
                 filename, write_puzzle_json(files, filename, puzzle_obj).sha256,
                 [version |-> current_version, url |-> Url(filename),
                  sha256 |-> write_puzzle_json(files, filename, puzzle_obj).sha256])
          EXCEPT !.files = write_puzzle_json(files, filename, puzzle_obj).files,
                 !.wrote = {filename}]

\* Lines 322-332: the record rebuilt with the final version, the row updated.
Persist(f, files, row, date_key, stored_hash, computed_hash, bumped, current_version) ==
    Emit(f, files,
         [k \in (DOMAIN row) \cup {CONTENT_HASH_COL} |->
             IF k = CONTENT_HASH_COL THEN computed_hash
             ELSE IF k = VERSION_COL /\ bumped THEN IntToStr(current_version)
             ELSE row[k]],
         date_key, stored_hash, bumped, current_version,
         Filename(date_key, current_version),
         build_puzzle_object(row, current_version))

\* Lines 317-321: bump or not.
Reconcile(f, files, row, date_key, parsed_version, stored_hash, computed_hash) ==
    Persist(f, files, row, date_key, stored_hash, computed_hash,
            ShouldBump(stored_hash, computed_hash),
            BumpedVersion(parsed_version, ShouldBump(stored_hash, computed_hash)))

\* Lines 300-315: skip the row, or read its version and hashes.
LoopBody(f, files) ==
    IF ~_row_has_any_content(f.table.rows[f.i])
    THEN [frame |-> [f EXCEPT !.skipped_blank_rows = @ + 1, !.i = @ + 1],
          files |-> files, wrote |-> {}]
    ELSE IF _strip_wrapping_quotes(Get(f.table.rows[f.i], DATEKEY_COL)) = <<>>
    THEN [frame |-> [f EXCEPT !.skipped_missing_date = @ + 1, !.i = @ + 1],
          files |-> files, wrote |-> {}]
    ELSE Reconcile(f, files, f.table.rows[f.i],
                   _strip_wrapping_quotes(Get(f.table.rows[f.i], DATEKEY_COL)),
                   RowVersion(f),
                   _strip_wrapping_quotes(Get(f.table.rows[f.i], CONTENT_HASH_COL)),
                   compute_content_hash(build_puzzle_object(f.table.rows[f.i], RowVersion(f))))

\* Lines 385-390: stamp the manifest in memory, save it in a real run.
StampManifest(f, time) ==
    IF f.any_manifest_updates
    THEN [f EXCEPT !.manifest.meta = Upsert(@, "generatedAtUtc", time)]
    ELSE f

SavesManifest(f) == (~f.dry_run) /\ f.any_manifest_updates

\* Lines 388, 391-392 and write_csv_table: every row written with the header's keys.
WritesCsv(f) == (~f.dry_run) /\ f.any_csv_updates

write_csv_table(table) ==
    [header |-> table.header,
     rows |-> [n \in 1..Len(table.rows) |->
                  [c \in {table.header[k] : k \in 1..Len(table.header)} |->
                      Get(table.rows[n], c)]]]

\* The whole of generate() as a function of the three files and the clock.
RECURSIVE RunLoop(_)
RunLoop(r) ==
    IF r.frame.i > Len(r.frame.table.rows) THEN r
    ELSE RunLoop(LoopBody(r.frame, r.files))

Finished(csv, manifestText, files, f) ==
    [frame |-> f,
     files |-> files,
     manifestFile |-> IF SavesManifest(f) THEN f.manifest ELSE manifestText,
     csvFile |-> IF WritesCsv(f) THEN write_csv_table(f.table) ELSE csv]

Looped(csv, manifestText, r, time) ==
    Finished(csv, manifestText, r.files, StampManifest(r.frame, time))

generate(csv, manifestText, files, dry, time) ==
    Looped(csv, manifestText,
           RunLoop([frame |-> StartFrame(csv, manifestText, dry), files |-> files,
                    wrote |-> {}]),
           time)

\* ------------------------------------------------------ inputs
BaseHeader == RequiredColumns \o <<"hint1", "hint1Explanation", "hint2">>

Columns(header) == {header[k] : k \in 1..Len(header)}

MkRow(header, date_key, category, solution, version) ==
    [c \in Columns(header) |->
        CASE c = DATEKEY_COL -> date_key
          [] c = CATEGORY_COL -> category
          [] c = TAGS_COL -> <<"t", ";", " ", "u">>
          [] c = ANSWER_CANONICAL_COL -> IF date_key = <<>> THEN <<>> ELSE <<"x">>
          [] c = ANSWER_ALIASES_COL -> IF date_key = <<>> THEN <<>> ELSE <<"y", ",", "z">>
          [] c = SOLUTION_EXPLANATION_COL -> solution
          [] c = VERSION_COL -> version
          [] c = "hint1" -> IF date_key = <<>> THEN <<>> ELSE <<"p">>
          [] c = "hint2" -> IF date_key = <<>> THEN <<>> ELSE <<"q">>
          [] OTHER -> <<>>]

RowA == MkRow(BaseHeader, <<"a">>, <<"c">>, <<"s">>, <<"1">>)

\* The same day again, with another explanation.
RowA2 == MkRow(BaseHeader, <<" ", "a">>, <<"c">>, <<"r">>, <<"1">>)

\* A second day: no version given, and a stray closing quote after the full stop.
RowB == MkRow(BaseHeader, <<"b">>, <<"'", "c", "'">>, <<"s", ".", "'">>, <<>>)

\* A row of blanks, one of them a space.
RowBlank == [c \in Columns(BaseHeader) |-> IF c = CATEGORY_COL THEN <<" ">> ELSE <<>>]

\* Tables as first exported: the contentHash column is not there yet.
InitTables ==
    {[header |-> BaseHeader, rows |-> rs] :
        rs \in {<<>>, <<RowBlank>>, <<RowA>>, <<RowA, RowB>>, <<RowBlank, RowB>>,
                <<RowA, RowA2>>}}

InitManifests ==
    {EmptyDict,
     [k \in {"meta", "puzzles"} |->
        IF k = "meta" THEN [j \in {"generatedAtUtc"} |-> 0]
        ELSE [d \in {<<"a">>} |->
                [version |-> 1, url |-> Url(Filename(<<"a">>, 1)), sha256 |-> <<"0">>]]]}

Quoted(text) == <<"'">> \o text \o <<"'">>

\* The edits of one row: <<column, new text>>.
EditChoices(row) ==
    {<<SOLUTION_EXPLANATION_COL, <<"n">>>>,
     <<SOLUTION_EXPLANATION_COL, Quoted(row[SOLUTION_EXPLANATION_COL])>>,
     <<"hint1Explanation", <<"n">>>>,
     <<DATEKEY_COL, <<"'", "'">>>>,
     <<VERSION_COL, <<"x">>>>,
     <<VERSION_COL, <<"7">>>>,
     <<CONTENT_HASH_COL, <<>>>>,
     <<CONTENT_HASH_COL, <<"z">>>>,
     <<CONTENT_HASH_COL, Quoted(Get(row, CONTENT_HASH_COL))>>}

\* ------------------------------------------------------ state
VARIABLES
    csvFile,        \* the source table on disk: header and rows
    manifestFile,   \* manifest.json on disk
    puzzleFiles,    \* the output directory: file name -> text
    now,            \* the clock, in seconds
    pc,             \* where generate() is: idle, rows, csv, done
    frame,          \* generate()'s locals
    writes,         \* files written by the current run
    start,          \* the three files as the current run found them
    settled,        \* the last thing to touch the files was a completed real run
    crashBase,      \* the files as the first interrupted run found them
    lastEdit,       \* the latest edit no completed real run has seen yet
    edits           \* edits of the table so far

vars == <<csvFile, manifestFile, puzzleFiles, now, pc, frame, writes, start, settled,
          crashBase, lastEdit, edits>>

Disk == [csvFile |-> csvFile, manifestFile |-> manifestFile, puzzleFiles |-> puzzleFiles]

NoFrame == StartFrame([header |-> <<>>, rows |-> <<>>], EmptyDict, FALSE)

NoWrites == [manifest |-> 0, csv |-> 0, artifacts |-> {}]

NoBase == [none |-> TRUE]

NoEdit == [n |-> 0]

Init ==
    /\ csvFile \in InitTables
    /\ manifestFile \in InitManifests
    /\ puzzleFiles = EmptyDict
    /\ now = 0
    /\ pc = "idle"
    /\ frame = NoFrame
    /\ writes = NoWrites
    /\ start = [disk |-> Disk, settled |-> FALSE]
    /\ settled = FALSE
    /\ crashBase = NoBase
    /\ lastEdit = NoEdit
    /\ edits = 0

\* _require_columns
HasRequiredColumns(header) ==
    \A k \in 1..Len(RequiredColumns) : RequiredColumns[k] \in Columns(header)

\* Lines 268-298: read the table and the manifest.
StartRun(dry) ==
    /\ pc \in {"idle", "done"}
    /\ now < MaxRuns
    /\ HasRequiredColumns(csvFile.header)
    /\ frame' = StartFrame(csvFile, manifestFile, dry)
    /\ pc' = "rows"
    /\ now' = now + 1
    /\ writes' = NoWrites
    /\ start' = [disk |-> Disk, settled |-> settled]
    /\ crashBase' = IF pc = "done" /\ ~frame.dry_run THEN NoBase ELSE crashBase
    /\ UNCHANGED <<csvFile, manifestFile, puzzleFiles, settled, lastEdit, edits>>

\* Lines 300-381: the loop body on the next row.
Looping(r) ==
    /\ frame' = r.frame
    /\ puzzleFiles' = r.files
    /\ writes' = [writes EXCEPT !.artifacts = @ \cup r.wrote]

LoopIteration ==
    /\ pc = "rows"
    /\ frame.i <= Len(frame.table.rows)
    /\ Looping(LoopBody(frame, puzzleFiles))
    /\ UNCHANGED <<csvFile, manifestFile, now, pc, start, settled, crashBase, lastEdit,
                   edits>>

\* Lines 383-390.
FinishManifest ==
    /\ pc = "rows"
    /\ frame.i > Len(frame.table.rows)
    /\ frame' = StampManifest(frame, now)
    /\ manifestFile' = IF SavesManifest(frame') THEN frame'.manifest ELSE manifestFile
    /\ writes' = IF SavesManifest(frame') THEN [writes EXCEPT !.manifest = @ + 1] ELSE writes
    /\ pc' = "csv"
    /\ UNCHANGED <<csvFile, puzzleFiles, now, start, settled, crashBase, lastEdit, edits>>

\* Lines 391-392.
FinishCsv ==
    /\ pc = "csv"
    /\ csvFile' = IF WritesCsv(frame) THEN write_csv_table(frame.table) ELSE csvFile
    /\ writes' = IF WritesCsv(frame) THEN [writes EXCEPT !.csv = @ + 1] ELSE writes
    /\ pc' = "done"
    /\ settled' = IF frame.dry_run THEN settled ELSE TRUE
    /\ lastEdit' = IF frame.dry_run THEN lastEdit ELSE NoEdit
    /\ UNCHANGED <<manifestFile, puzzleFiles, now, frame, start, crashBase, edits>>

\* The process dies between two file operations; its locals are lost.
Crash ==
    /\ pc \in {"rows", "csv"}
    /\ pc' = "idle"
    /\ frame' = NoFrame
    /\ writes' = NoWrites
    /\ settled' = IF frame.dry_run THEN settled ELSE FALSE
    /\ crashBase' = IF frame.dry_run \/ crashBase # NoBase THEN crashBase
                    ELSE [none |-> FALSE, disk |-> start.disk, writes |-> writes]
    /\ UNCHANGED <<csvFile, manifestFile, puzzleFiles, now, start, lastEdit, edits>>

\* Somebody edits one cell of the table between two runs.
Edit(n, col, val) ==
    /\ pc \in {"idle", "done"}
    /\ edits < MaxEdits
    /\ col \in Columns(csvFile.header)
    /\ csvFile.rows[n][col] # val
    /\ csvFile' = [csvFile EXCEPT !.rows[n][col] = val]
    /\ edits' = edits + 1
    /\ pc' = "idle"
    /\ frame' = NoFrame
    /\ writes' = NoWrites
    /\ settled' = FALSE
    /\ crashBase' = NoBase
    /\ lastEdit' = [n |-> n, col |-> col, before |-> csvFile.rows[n]]
    /\ UNCHANGED <<manifestFile, puzzleFiles, now, start>>

Next ==
    \/ \E dry \in BOOLEAN : StartRun(dry)
    \/ LoopIteration
    \/ FinishManifest
    \/ FinishCsv
    \/ Crash
    \/ \E n \in 1..Len(csvFile.rows) : \E e \in EditChoices(csvFile.rows[n]) :
          Edit(n, e[1], e[2])

Spec == Init /\ [][Next]_vars

\* ------------------------------------------------------ what the claims say
\* A run is under way or has ended with its report.
InRun == pc \in {"rows", "csv", "done"}

\* The rows as the current run read them.
RowsBefore == start.disk.csvFile.rows

AllBlank(row) ==
    \A c \in DOMAIN row : \A k \in 1..Len(row[c]) : row[c][k] \in {" ", "\t"}

DayKey(row) == _strip_wrapping_quotes(Get(row, DATEKEY_COL))

IsProcessed(row) == ~AllBlank(row) /\ DayKey(row) # <<>>

StoredHash(row) == _strip_wrapping_quotes(Get(row, CONTENT_HASH_COL))

ParsedVersion(row) == _parse_int(Get(row, VERSION_COL), 1)

RowHash(row) == compute_content_hash(build_puzzle_object(row, ParsedVersion(row)))

\* {dateKey}.v{version}.json, spelled out.
ExpectedName(key, version) ==
    key \o <<".", "v">> \o IntToStr(version) \o <<".", "j", "s", "o", "n">>

ExpectedUrl(key, version) ==
    <<"/", "p", "u", "z", "z", "l", "e", "s", "/">> \o ExpectedName(key, version)

\* json.loads of an artifact's text.
ParsePairs(pairs) ==
    [k \in {pairs[n][1] : n \in 1..Len(pairs)} |->
        pairs[CHOOSE n \in 1..Len(pairs) : pairs[n][1] = k][2]]

ParseList(list) == [n \in 1..Len(list) |-> ParsePairs(list[n])]

ArtifactObject(text) ==
    [k \in DOMAIN ParsePairs(text[1][2]) |->
        IF k = "hints" THEN ParseList(ParsePairs(text[1][2])[k])
        ELSE ParsePairs(text[1][2])[k]]

\* The loop has just handled row frame.i - 1 and made a result for it.
JustProcessed ==
    pc = "rows" /\ frame.i > 1 /\ IsProcessed(RowsBefore[frame.i - 1])

Before == RowsBefore[frame.i - 1]

After == frame.table.rows[frame.i - 1]

Last == frame.results[Len(frame.results)]

ProcessedKeys(rows) == {DayKey(rows[n]) : n \in {m \in 1..Len(rows) : IsProcessed(rows[m])}}

UniqueKeys(rows) ==
    \A m, n \in 1..Len(rows) :
        (m # n /\ IsProcessed(rows[m]) /\ IsProcessed(rows[n]))
            => DayKey(rows[m]) # DayKey(rows[n])

Entries(manifestText) ==
    IF "puzzles" \in DOMAIN manifestText THEN manifestText["puzzles"] ELSE EmptyDict

\* C1: a real run that starts from the files a completed real run left, with no
\* edit in between, on a table whose processed rows have distinct day keys, leaves
\* the artifacts, the manifest (its timestamp too) and the table as they were, bumps
\* nothing and reports neither a table update nor a manifest update.
C1_Idempotent ==
    (pc = "done" /\ ~frame.dry_run /\ start.settled /\ UniqueKeys(RowsBefore))
        => /\ puzzleFiles = start.disk.puzzleFiles
           /\ manifestFile = start.disk.manifestFile
           /\ csvFile = start.disk.csvFile
           /\ \A k \in 1..Len(frame.results) : ~frame.results[k].bumped
           /\ ~frame.any_csv_updates
           /\ ~frame.any_manifest_updates
           /\ writes.manifest = 0
           /\ writes.csv = 0

C1_SecondRunDone ==
    /\ pc = "done" /\ ~frame.dry_run /\ start.settled /\ UniqueKeys(RowsBefore)
    /\ Len(frame.results) = 2
    /\ frame.results[1].version = 2

\* C3: the content hash of a row's record is the same at every version, and the
\* hash a real run stores in the row is the content hash of the artifact it has
\* just written for that row (the record rebuilt after a bump included).
C3_HashIgnoresVersion ==
    /\ (pc = "rows" /\ frame.i > 1)
          => \A v \in 0..3 :
                compute_content_hash(build_puzzle_object(Before, v))
                    = compute_content_hash(build_puzzle_object(Before, 1))
    /\ (JustProcessed /\ ~frame.dry_run)
          => /\ ExpectedName(DayKey(Before), Last.version) \in DOMAIN puzzleFiles
             /\ ArtifactObject(puzzleFiles[ExpectedName(DayKey(Before), Last.version)]).version
                    = Last.version
             /\ compute_content_hash(
                    ArtifactObject(puzzleFiles[ExpectedName(DayKey(Before), Last.version)]))
                    = After[CONTENT_HASH_COL]

C3_BumpedArtifactWritten ==
    JustProcessed /\ ~frame.dry_run /\ Last.bumped /\ Last.version = 2

\* C4: a processed row whose stored hash is empty is not bumped: its result, its
\* artifact and its manifest entry carry the version parsed from the row (1 when
\* the cell is blank or not a number), the version cell is left as it was, the
\* hash cell holds the computed hash and the table is marked for writing.
C4_EmptyHashInitialised ==
    (JustProcessed /\ StoredHash(Before) = <<>>)
        => /\ ~Last.bumped
           /\ Last.version = ParsedVersion(Before)
           /\ (Before[VERSION_COL] \in {<<>>, <<"x">>}) => Last.version = 1
           /\ After[VERSION_COL] = Before[VERSION_COL]
           /\ After[CONTENT_HASH_COL] = RowHash(Before)
           /\ After[CONTENT_HASH_COL] # <<>>
           /\ frame.any_csv_updates
           /\ frame.manifest.puzzles[DayKey(Before)].version = Last.version
           /\ frame.manifest.puzzles[DayKey(Before)].url
                  = ExpectedUrl(DayKey(Before), Last.version)
           /\ ~frame.dry_run
                  => /\ ExpectedName(DayKey(Before), Last.version) \in DOMAIN puzzleFiles
                     /\ ArtifactObject(
                            puzzleFiles[ExpectedName(DayKey(Before), Last.version)]).version
                            = Last.version

C4_BlankVersionNoHashColumn ==
    /\ JustProcessed /\ StoredHash(Before) = <<>>
    /\ CONTENT_HASH_COL \notin DOMAIN Before
    /\ Before[VERSION_COL] = <<>>
    /\ ~frame.dry_run

\* C8: a row of blanks, or one whose day key is blank, is skipped: the rows the
\* loop has passed are counted as blank, as missing their day key, or as results,
\* each by its kind; a skipped row is left as it was, in memory and in the table
\* file; every artifact written and every manifest entry set or changed belongs to
\* a processed row's day key.
SkippedBlank(n) == {m \in 1..n : AllBlank(RowsBefore[m])}

SkippedNoKey(n) == {m \in 1..n : ~AllBlank(RowsBefore[m]) /\ DayKey(RowsBefore[m]) = <<>>}

ResultKeys == {frame.results[k].date_key : k \in 1..Len(frame.results)}

C8_BlankRowsSkipped ==
    InRun =>
        /\ frame.skipped_blank_rows = Cardinality(SkippedBlank(frame.i - 1))
        /\ frame.skipped_missing_date = Cardinality(SkippedNoKey(frame.i - 1))
        /\ Len(frame.results)
              = (frame.i - 1) - Cardinality(SkippedBlank(frame.i - 1))
                              - Cardinality(SkippedNoKey(frame.i - 1))
        /\ ResultKeys = ProcessedKeys(SubSeq(RowsBefore, 1, frame.i - 1))
        /\ \A m \in SkippedBlank(frame.i - 1) \cup SkippedNoKey(frame.i - 1) :
              /\ frame.table.rows[m] = RowsBefore[m]
              /\ \A c \in {VERSION_COL, CONTENT_HASH_COL} :
                    Get(csvFile.rows[m], c) = Get(RowsBefore[m], c)
        /\ \A name \in writes.artifacts :
              \E k \in 1..Len(frame.results) :
                  name = ExpectedName(frame.results[k].date_key, frame.results[k].version)
        /\ \A name \in DOMAIN puzzleFiles :
              \/ name \in DOMAIN start.disk.puzzleFiles
              \/ \E k \in 1..Len(frame.results) :
                  name = ExpectedName(frame.results[k].date_key, frame.results[k].version)
        /\ \A key \in DOMAIN frame.manifest.puzzles :
              \/ key \in ResultKeys
              \/ /\ key \in DOMAIN Entries(start.disk.manifestFile)
                 /\ frame.manifest.puzzles[key] = Entries(start.disk.manifestFile)[key]
        /\ <<>> \notin ResultKeys

C8_BothKindsSkipped ==
    /\ pc = "done" /\ ~frame.dry_run
    /\ frame.skipped_blank_rows = 1
    /\ frame.skipped_missing_date = 1
    /\ writes.csv = 0

\* C2, as claimed: after an edit of a cell other than the version (and other than
\* the stored hash) of a row whose stored hash is not empty, the next run computes
\* another content hash for the row and bumps it by one.
EditedRowJustProcessed ==
    /\ JustProcessed
    /\ lastEdit.n = frame.i - 1
    /\ lastEdit.col \notin {VERSION_COL, CONTENT_HASH_COL}
    /\ StoredHash(lastEdit.before) # <<>>

RecordChanged == build_puzzle_object(Before, 0) # build_puzzle_object(lastEdit.before, 0)

C5_SavedIffChanged ==
    (pc \in {"csv", "done"}) => (writes.manifest = 1 <=> frame.any_manifest_updates)

\* C5, amended: a real run saves the manifest once, after the loop, exactly when an
\* entry changed, and what it saves carries the time of the run; a real run in which
\* no entry changed, and every dry run, leaves the manifest file and its timestamp
\* as they were.  With distinct day keys an entry changed exactly when a processed
\* row's entry differs from the one the manifest file held.
EntryDiffers(key) ==
    \/ key \notin DOMAIN Entries(start.disk.manifestFile)
    \/ Entries(start.disk.manifestFile)[key] # frame.manifest.puzzles[key]

C5_RealRunSavesIffChanged ==
    InRun =>
        /\ writes.manifest =
              (IF pc \in {"csv", "done"} /\ ~frame.dry_run /\ frame.any_manifest_updates
               THEN 1 ELSE 0)
        /\ writes.manifest = 0 => manifestFile = start.disk.manifestFile
        /\ writes.manifest = 1
              => /\ manifestFile = frame.manifest
                 /\ manifestFile["meta"]["generatedAtUtc"] = now
        /\ (pc \in {"csv", "done"} /\ UniqueKeys(RowsBefore))
              => (frame.any_manifest_updates <=> \E key \in ResultKeys : EntryDiffers(key))

C5_UnchangedManifestKept ==
    /\ pc = "done" /\ ~frame.dry_run
    /\ Len(frame.results) > 0
    /\ writes.manifest = 0
    /\ manifestFile["meta"]["generatedAtUtc"] < now

\* C6, as claimed: a dry run writes nothing and classifies every row as a real run
\* from the same files would, whatever the table.
RealRun ==
    generate(start.disk.csvFile, start.disk.manifestFile, start.disk.puzzleFiles,
             FALSE, now)

Classification(results) ==
    [k \in 1..Len(results) |->
        <<results[k].date_key, results[k].version, results[k].created,
          results[k].bumped>>]

DryRunAgrees ==
    /\ Classification(frame.results) = Classification(RealRun.frame.results)
    /\ frame.manifest.puzzles = RealRun.frame.manifest.puzzles

C6_DryRunSameReport ==
    /\ (InRun /\ frame.dry_run) => (Disk = start.disk /\ writes = NoWrites)
    /\ (pc = "done" /\ frame.dry_run) => DryRunAgrees

\* C6, amended: a dry run writes nothing, and classifies every row as a real run
\* from the same files would when no two processed rows produce the same artifact
\* file name (as when day keys are unique).
DistinctNames(results) ==
    \A j, k \in 1..Len(results) :
        j # k => ExpectedName(results[j].date_key, results[j].version)
                     # ExpectedName(results[k].date_key, results[k].version)

C6_DryRunSameReportDistinct ==
    /\ (InRun /\ frame.dry_run) => (Disk = start.disk /\ writes = NoWrites)
    /\ (pc = "done" /\ frame.dry_run /\ DistinctNames(frame.results)) => DryRunAgrees

C6_DryRunReportsBumpAndCreate ==
    /\ pc = "done" /\ frame.dry_run /\ DistinctNames(frame.results)
    /\ Len(frame.results) = 2
    /\ frame.results[1].bumped /\ frame.results[1].created
    /\ ~frame.results[2].bumped /\ ~frame.results[2].created

\* C7: a real run writes exactly the artifact of each processed row's final version:
\* every other file of the directory stays as the run found it and none is deleted.
\* A row at version 1 whose content no longer matches its stored hash is bumped to
\* {dateKey}.v2.json, with a manifest entry of version 2 and url
\* /puzzles/{dateKey}.v2.json, and {dateKey}.v1.json is left untouched.
FinalNames ==
    {ExpectedName(frame.results[k].date_key, frame.results[k].version) :
        k \in 1..Len(frame.results)}

C7_OldVersionsUntouched ==
    /\ (InRun /\ ~frame.dry_run)
          => /\ writes.artifacts = FinalNames
             /\ \A name \in DOMAIN start.disk.puzzleFiles :
                   /\ name \in DOMAIN puzzleFiles
                   /\ name \notin FinalNames
                         => puzzleFiles[name] = start.disk.puzzleFiles[name]
             /\ \A name \in DOMAIN puzzleFiles :
                   name \in FinalNames \/ name \in DOMAIN start.disk.puzzleFiles
    /\ (JustProcessed /\ ParsedVersion(Before) = 1
        /\ StoredHash(Before) \notin {<<>>, RowHash(Before)})
          => /\ Last.bumped
             /\ Last.version = 2
             /\ frame.manifest.puzzles[DayKey(Before)].version = 2
             /\ frame.manifest.puzzles[DayKey(Before)].url = ExpectedUrl(DayKey(Before), 2)
             /\ ~frame.dry_run
                   => /\ ExpectedName(DayKey(Before), 2) \in DOMAIN puzzleFiles
                      /\ ArtifactObject(puzzleFiles[ExpectedName(DayKey(Before), 2)]).version = 2
                      /\ frame.manifest.puzzles[DayKey(Before)].sha256
                            = _sha256_text(puzzleFiles[ExpectedName(DayKey(Before), 2)])
                      /\ (UniqueKeys(RowsBefore)
                          /\ ExpectedName(DayKey(Before), 1) \in DOMAIN start.disk.puzzleFiles)
                            => /\ ExpectedName(DayKey(Before), 1) \notin writes.artifacts
                               /\ puzzleFiles[ExpectedName(DayKey(Before), 1)]
                                     = start.disk.puzzleFiles[ExpectedName(DayKey(Before), 1)]

C7_BumpedBesideOldFile ==
    /\ JustProcessed /\ ~frame.dry_run /\ UniqueKeys(RowsBefore)
    /\ Last.bumped /\ Last.version = 2
    /\ lastEdit.n = frame.i - 1
    /\ ExpectedName(DayKey(Before), 1) \in DOMAIN start.disk.puzzleFiles
    /\ ExpectedName(DayKey(Before), 2) \notin DOMAIN start.disk.puzzleFiles

\* C9, as claimed: a real run rewrites the table exactly when the version or the
\* contentHash cell of some row changed or the contentHash column was added.
CellsChanged ==
    \E m \in 1..Len(RowsBefore) : \E c \in {VERSION_COL, CONTENT_HASH_COL} :
        Get(frame.table.rows[m], c) # Get(RowsBefore[m], c)

ColumnAdded == CONTENT_HASH_COL \notin Columns(start.disk.csvFile.header)

C9_RewrittenIffChangedOrColumnAdded ==
    (pc = "done" /\ ~frame.dry_run) => (writes.csv = 1 <=> (CellsChanged \/ ColumnAdded))

\* C9, amended: a real run rewrites the table exactly when some processed row's
\* stored hash, unquoted, is empty or differs from the computed hash (the hash is
\* initialised or the version bumped); adding the contentHash column alone, with no
\* row processed, rewrites nothing.  A dry run never rewrites it.
NeedsHashOrBump ==
    \E m \in 1..Len(RowsBefore) :
        IsProcessed(RowsBefore[m]) /\ StoredHash(RowsBefore[m]) # RowHash(RowsBefore[m])

C9_RewrittenIffHashInitialisedOrBumped ==
    /\ (pc \in {"rows", "csv"}) => (writes.csv = 0 /\ csvFile = start.disk.csvFile)
    /\ pc = "done"
          => /\ writes.csv = (IF ~frame.dry_run /\ NeedsHashOrBump THEN 1 ELSE 0)
             /\ writes.csv = 0 => csvFile = start.disk.csvFile
             /\ writes.csv = 1
                   => /\ CONTENT_HASH_COL \in Columns(csvFile.header)
                      /\ \A m \in 1..Len(RowsBefore) : \A c \in Columns(csvFile.header) :
                            csvFile.rows[m][c] = Get(frame.table.rows[m], c)

C9_RewrittenAfterBump ==
    /\ pc = "done" /\ ~frame.dry_run /\ writes.csv = 1
    /\ ~ColumnAdded
    /\ \E k \in 1..Len(frame.results) : frame.results[k].bumped

\* C10: a real run that completes after one or more real runs were interrupted (at
\* any point between two file writes), with no edit of the table in between, ends
\* with the artifacts, the manifest entries and the table that a single
\* uninterrupted run from the files the first interrupted run found would have
\* left.
Uninterrupted ==
    generate(crashBase.disk.csvFile, crashBase.disk.manifestFile,
             crashBase.disk.puzzleFiles, FALSE, now)

C10_CrashRecovery ==
    (pc = "done" /\ ~frame.dry_run /\ ~crashBase.none)
        => /\ puzzleFiles = Uninterrupted.files
           /\ Entries(manifestFile) = Entries(Uninterrupted.manifestFile)
           /\ csvFile = Uninterrupted.csvFile

C10_RecoveredAfterManifestSaved ==
    /\ pc = "done" /\ ~frame.dry_run /\ ~crashBase.none
    /\ crashBase.writes.artifacts # {}
    /\ crashBase.writes.manifest = 1
    /\ \E k \in 1..Len(frame.results) : frame.results[k].bumped

====
